---- MODULE Spec2Model ----
\* Model of the django_base product catalog: the Product / UserProfile /
\* Category rows of the relational store, the model methods that write them
\* (core/models.py, core/mixins.py), the mutation hooks (core/signals.py),
\* the background tasks (core/tasks.py) and the API handlers that call them
\* (core/viewsets.py, core/serializers.py).
EXTENDS Integers, Sequences, FiniteSets, TLC

\* ------------------------------------------------------------------ bounds
MaxProducts == 1
MaxInserts == 2
MaxTime == 1
MaxUsers == 3
MaxCategories == 3

\* --------------------------------------------------------------- constants
\* Decimal("9999999.99") of Product.clean, in cents
MaxPriceCents == 999999999
\* "at least 3 characters" of Product.clean
MinNameLen == 3

None == 0

\* products, users/profiles and categories are the tables; next_id and
\* next_uid the id sequences; n_inserts and n_async_calls count Product
\* INSERTs and async_task calls; last, ulast and clast hold the most recent
\* operation on each table and its answer.  The three groups of tables
\* share no row and no handler, so a behaviour exercises one of them:
\* focus says which.  clock is the current day and created_at the
\* created_at column of the products; auth_user holds the username and
\* email columns of the users, bio the bio column of their profiles and
\* subs the registration submissions under way; requests is
\* SimpleRateLimiter.requests, now_s the current second, limit the
\* (max_requests, period) the view is decorated with, admitted the times
\* at which the view ran, rlast the most recent request to it.
\* n_discounts counts the apply_discount calls.  threads holds the
\* position and the locals of each thread inside is_rate_limited.
\* django_cache is the Django cache as cache_result uses it, cache_now its clock and
\* klast the most recent call of the wrapped function.
VARIABLES focus,
          products, next_id, n_inserts, n_async_calls, last,
          clock, created_at,
          users, next_uid, profiles, ulast, auth_user, bio, subs,
          categories, clast,
          requests, now_s, limit, admitted, rlast,
          n_discounts,
          threads,
          django_cache, cache_now, klast

vars == <<focus, products, next_id, n_inserts, n_async_calls, last,
          clock, created_at,
          users, next_uid, profiles, ulast, auth_user, bio, subs,
          categories, clast,
          requests, now_s, limit, admitted, rlast,
          n_discounts,
          threads,
          django_cache, cache_now, klast>>

pvars == <<products, next_id, n_inserts, n_async_calls, last, clock,
           created_at>>
uvars == <<users, next_uid, profiles, ulast, auth_user, bio, subs>>
cvars == <<categories, clast>>
lvars == <<requests, now_s, limit, admitted, rlast>>
dvars == <<n_discounts>>
tvars == <<threads>>
kvars == <<django_cache, cache_now, klast>>

\* An operation on one group of tables leaves the others alone.  The
\* products are exercised by the model's own operations ("products") or by
\* requests to /api/v1/products/ (the CRUD and staff actions "api", the
\* recent listing as time passes "recent", the price-range listing
\* "price_range"); the accounts by the ORM ("accounts"), by requests to
\* /api/v1/profiles/ ("profiles") or by the registration page
\* ("register").
OnProducts ==
    focus = "products" /\ UNCHANGED <<focus, uvars, cvars, lvars, dvars, tvars,
                                  kvars>>
OnProductApi(fs) ==
    focus \in fs /\ UNCHANGED <<focus, uvars, cvars, lvars, dvars, tvars,
                                  kvars>>
OnAccounts(fs) ==
    focus \in fs /\ UNCHANGED <<focus, pvars, cvars, lvars, dvars, tvars,
                                  kvars>>
OnCategories ==
    focus = "categories" /\ UNCHANGED <<focus, pvars, uvars, lvars, dvars, tvars,
                                  kvars>>
OnLimiter ==
    focus = "limiter" /\ UNCHANGED <<focus, pvars, uvars, cvars, dvars, tvars,
                                  kvars>>
OnDiscount ==
    focus = "discount" /\ UNCHANGED <<focus, uvars, cvars, lvars, tvars, kvars>>
OnThreads ==
    focus = "threads" /\ UNCHANGED <<focus, pvars, uvars, cvars, dvars, kvars>>
OnCache ==
    focus = "cache" /\ UNCHANGED <<focus, pvars, uvars, cvars, lvars, dvars,
                                  tvars>>

\* ------------------------------------------------------------------ values
\* A name is a sequence of characters; " " stands for any whitespace
\* character and the letters for any other.
Names == { <<>>,
           <<" ", " ">>,
           <<"a", "b">>,
           <<" ", "a", "b", " ">>,
           <<"a", "b", "c">>,
           <<" ", "a", "b", "c", " ">>,
           <<"a", " ", "c", "d">> }

\* A price attribute as Python holds it: a Decimal (cents), a string that
\* parses as a decimal, a string that does not, or None.
Dec(c) == [kind |-> "decimal", cents |-> c]
PriceInputs == { Dec(0 - 1), Dec(0), Dec(1), Dec(MaxPriceCents),
                 Dec(MaxPriceCents + 1),
                 [kind |-> "numstr", cents |-> 1],
                 [kind |-> "str", cents |-> 0],
                 [kind |-> "none", cents |-> 0] }

Times == 1..MaxTime
ProductIds == 1..MaxProducts

\* ------------------------------------------------------------- str.strip()
RECURSIVE lstrip(_)
lstrip(s) ==
    IF s = <<>> THEN <<>>
    ELSE IF Head(s) = " " THEN lstrip(Tail(s)) ELSE s

RECURSIVE rstrip(_)
rstrip(s) ==
    IF s = <<>> THEN <<>>
    ELSE IF s[Len(s)] = " " THEN rstrip(SubSeq(s, 1, Len(s) - 1)) ELSE s

strip(s) == rstrip(lstrip(s))

\* ----------------------------------------------------- Product validation
\* Model.clean_fields for the two fields the caller sets.  It returns the
\* attribute values after the pass (a field that cleans is replaced by its
\* Python value, one that fails is left as it was) and whether any field
\* failed.  name: CharField(blank=False) rejects "" only.  price:
\* DecimalField.to_python parses "numstr", rejects "str"; null=False
\* rejects None.
clean_fields(name, price) ==
    [ name   |-> name,
      price  |-> IF price.kind = "numstr" THEN Dec(price.cents) ELSE price,
      errors |-> \/ name = <<>>
                 \/ price.kind \in {"str", "none"} ]

\* Product.clean: the checks in source order.  `self.price <= 0` on a str
\* is Python's TypeError; every other failure is a ValidationError.
clean(name, price) ==
    IF price.kind = "str" THEN "TypeError"
    ELSE IF price.kind = "decimal" /\ price.cents <= 0 THEN "ValidationError"
    ELSE IF price.kind = "decimal" /\ price.cents > MaxPriceCents
         THEN "ValidationError"
    ELSE IF name # <<>> /\ strip(name) = <<>> THEN "ValidationError"
    ELSE IF name # <<>> /\ Len(strip(name)) < MinNameLen THEN "ValidationError"
    ELSE "ok"

\* self.full_clean() as Product.save calls it: clean_fields, then clean()
\* on the resulting attributes even when a field failed; the collected
\* ValidationErrors are raised at the end, any other exception at once.
full_clean(name, price) ==
    LET cf == clean_fields(name, price)
        c  == clean(cf.name, cf.price)
    IN  [ name    |-> cf.name,
          price   |-> cf.price,
          outcome |-> IF c = "TypeError" THEN "TypeError"
                      ELSE IF cf.errors \/ c = "ValidationError"
                           THEN "ValidationError"
                      ELSE "ok" ]

\* ------------------------------------------------------------------- hooks
\* Each hook returns whether it let an exception escape and what it did.

\* Variant of the pre_save hook that lets Product.DoesNotExist escape.
product_pre_save_handler_propagates(prev) ==
    [ raised |-> prev = "missing",
      logged |-> CASE prev = "missing" -> "warning"
                   [] prev = "error"   -> "error"
                   [] OTHER            -> "none" ]

\* pre_save: prev is "none" (instance.pk unset), "found", "missing"
\* (Product.DoesNotExist) or "error" (any other failure of the lookup or
\* the comparison).  All are caught.
product_pre_save_handler(prev) ==
    [ raised |-> FALSE,
      logged |-> CASE prev = "missing" -> "warning"
                   [] prev = "error"   -> "error"
                   [] OTHER            -> "none" ]

\* The info lines the pre_save hook writes when the lookup finds the row:
\* the price line "<old> -> <new>" when the prices differ (here the pair
\* <<old, new>>) and the status word when the is_deleted flags differ.
NoLog == [price |-> <<>>, status |-> ""]

product_pre_save_log(prev, old_instance, instance) ==
    IF prev # "found" THEN NoLog
    ELSE [ price  |-> IF old_instance.price # instance.price
                      THEN <<old_instance.price, instance.price>>
                      ELSE <<>>,
           status |-> IF old_instance.is_deleted # instance.is_deleted
                      THEN IF instance.is_deleted THEN "activated"
                           ELSE "deactivated"
                      ELSE "" ]

AsyncOutcomes == {"ok", "ImportError", "Exception"}

\* Variant of the post_save hook without the `if created` test.
schedule_product_notification_always(created, pk, name, q) ==
    [ raised |-> FALSE,
      calls  |-> 1,
      call   |-> <<pk, name>>,
      queued |-> q = "ok" ]

\* Variant of the post_save hook whose inner handlers re-raise.
schedule_product_notification_reraise(created, pk, name, q) ==
    [ raised |-> created /\ q # "ok",
      calls  |-> IF created THEN 1 ELSE 0,
      call   |-> IF created THEN <<pk, name>> ELSE <<>>,
      queued |-> created /\ q = "ok" ]

\* post_save: one async_task call for a created row, none otherwise; a
\* failing call is caught (ImportError, then Exception).
schedule_product_notification(created, pk, name, q) ==
    [ raised |-> FALSE,
      calls  |-> IF created THEN 1 ELSE 0,
      call   |-> IF created THEN <<pk, name>> ELSE <<>>,
      queued |-> created /\ q = "ok" ]

\* post_save: placeholder, try/except around a log line.
update_search_index(created) ==
    [ raised |-> FALSE ]

\* post_delete: try/except around a log line.
product_post_delete_handler(pk) ==
    [ raised |-> FALSE ]

\* ------------------------------------------------------------ last request
\* What the most recent operation was given and what it answered.
NoLast ==
    [ op |-> "init", pk |-> None, outcome |-> "ok", created |-> FALSE,
      wrote |-> FALSE, bad_price |-> FALSE, bad_name |-> FALSE,
      pre |-> "none", q |-> "none", calls |-> 0, call |-> <<>>,
      queued |-> FALSE, status |-> 0, req |-> <<>>,
      result |-> [raised |-> FALSE, status |-> "", error |-> ""],
      who |-> "", param |-> <<>>, body |-> {},
      percentage |-> 0, before |-> 0, memory |-> 0, log |-> NoLog ]

\* The claims' reading of an invalid price and an invalid name.
IsBadPrice(price) ==
    \/ price.kind \in {"str", "none"}
    \/ price.cents <= 0

IsTrimmed(s) == s = <<>> \/ (s[1] # " " /\ s[Len(s)] # " ")

IsBadName(name) == Len(strip(name)) < MinNameLen

\* --------------------------------------------------------------- instances
\* A Product instance in memory: new (pk unset, field defaults) or loaded
\* from its row.
NewInstance(name, price) ==
    [ pk |-> None, name |-> name, price |-> price,
      is_deleted |-> FALSE, deleted_at |-> None ]

FromRow(store, pk) ==
    [ pk |-> pk, name |-> store[pk].name, price |-> Dec(store[pk].price),
      is_deleted |-> store[pk].is_deleted,
      deleted_at |-> store[pk].deleted_at ]

\* An instance whose row is gone (loaded earlier, hard-deleted since).
StaleInstance(pk, name, price) ==
    [ pk |-> pk, name |-> name, price |-> price,
      is_deleted |-> FALSE, deleted_at |-> None ]

\* Variant of soft_delete that forgets the timestamp.
soft_delete_flag_only(inst, now) ==
    [inst EXCEPT !.is_deleted = TRUE]

\* SoftDeleteModelMixin.soft_delete / restore: the two assignments; the
\* save(update_fields=["is_deleted", "deleted_at"]) that follows is `save`.
soft_delete(inst, now) ==
    [inst EXCEPT !.is_deleted = TRUE, !.deleted_at = now]

restore(inst) ==
    [inst EXCEPT !.is_deleted = FALSE, !.deleted_at = None]

SoftDeleteFields == {"is_deleted", "deleted_at"}

\* Product.save on instance `inst`: full_clean, strip the name, pre_save
\* hook, the row write (UPDATE of an existing pk, else INSERT), post_save
\* hooks.  `fields` is update_fields ({} = all); `lookup` and `q` are what
\* the pre-save lookup and the async_task call meet; `nid` is the next
\* sequence value.  Returns the store afterwards and what happened.
save(store, inst, fields, lookup, q, nid) ==
    LET fc      == full_clean(inst.name, inst.price)
        name2   == strip(fc.name)
        exists  == inst.pk # None /\ inst.pk \in DOMAIN store
        prev    == IF inst.pk = None THEN "none"
                   ELSE IF lookup = "error" THEN "error"
                   ELSE IF exists THEN "found" ELSE "missing"
        pre     == product_pre_save_handler(prev)
        log     == product_pre_save_log(
                       prev,
                       IF exists THEN store[inst.pk] ELSE inst,
                       [ price |-> fc.price.cents,
                         is_deleted |-> inst.is_deleted ])
        id      == IF inst.pk = None THEN nid ELSE inst.pk
        full    == [ name |-> name2, price |-> fc.price.cents,
                     is_deleted |-> inst.is_deleted,
                     deleted_at |-> inst.deleted_at ]
        row     == IF exists /\ fields # {}
                   THEN [ store[id] EXCEPT
                            !.is_deleted = inst.is_deleted,
                            !.deleted_at = inst.deleted_at ]
                   ELSE full
        written == [ i \in DOMAIN store \cup {id} |->
                        IF i = id THEN row ELSE store[i] ]
        created == ~exists
        post1   == schedule_product_notification(created, id, name2, q)
        post2   == update_search_index(created)
        quiet   == [ store |-> store, outcome |-> fc.outcome, pk |-> inst.pk,
                     created |-> FALSE, wrote |-> FALSE, pre |-> "none",
                     q |-> "none", calls |-> 0, call |-> <<>>,
                     queued |-> FALSE, log |-> NoLog ]
    IN  IF fc.outcome # "ok" THEN quiet
        ELSE IF pre.raised
             THEN [quiet EXCEPT !.outcome = "raised", !.pre = pre.logged]
        ELSE [ store |-> written,
               outcome |-> IF post1.raised \/ post2.raised
                           THEN "raised" ELSE "ok",
               pk |-> id, created |-> created, wrote |-> TRUE,
               pre |-> pre.logged,
               q |-> IF post1.calls > 0 THEN q ELSE "none",
               calls |-> post1.calls, call |-> post1.call,
               queued |-> post1.queued, log |-> log ]

\* TimeStampedModelMixin.created_at (auto_now_add): an INSERT stamps the
\* row with the current time, an UPDATE leaves the column alone.
stamp(column, r, now) ==
    IF r.created
    THEN [ i \in DOMAIN r.store |-> IF i = r.pk THEN now ELSE column[i] ]
    ELSE column

\* The bookkeeping every save-based action shares.
Saved(r, op, name, price) ==
    /\ r.created => (n_inserts < MaxInserts /\ r.pk \in ProductIds)
    /\ products' = r.store
    /\ next_id' = IF r.created /\ r.pk = next_id THEN next_id + 1 ELSE next_id
    /\ n_inserts' = IF r.created THEN n_inserts + 1 ELSE n_inserts
    /\ n_async_calls' = n_async_calls + r.calls
    /\ created_at' = stamp(created_at, r, clock)
    /\ clock' = clock
    /\ last' = [ NoLast EXCEPT
                   !.op = op, !.pk = r.pk, !.outcome = r.outcome,
                   !.created = r.created, !.wrote = r.wrote,
                   !.bad_price = IsBadPrice(price),
                   !.bad_name = IsBadName(name),
                   !.pre = r.pre, !.q = r.q, !.calls = r.calls,
                   !.call = r.call, !.queued = r.queued, !.log = r.log ]

Lookups == {"db", "error"}

\* The lookup and the queue are only reached by a save that passes
\* full_clean; for the others one case stands for all.
LookupCases(name, price) ==
    IF full_clean(name, price).outcome = "ok" THEN Lookups ELSE {"db"}

QueueCases(name, price) ==
    IF full_clean(name, price).outcome = "ok" THEN AsyncOutcomes ELSE {"ok"}

\* Product(name=..., price=...).save() / Product.objects.create(...)
CreateProduct ==
    /\ OnProducts
    /\ \E name \in Names, price \in PriceInputs :
      \E q \in QueueCases(name, price) :
        Saved(save(products, NewInstance(name, price), {}, "db", q, next_id),
              "save", name, price)

\* product = Product.objects.get(pk); product.name/price = ...; product.save()
UpdateProduct ==
    /\ OnProducts
    /\ \E pk \in DOMAIN products, name \in Names, price \in PriceInputs :
      \E lookup \in LookupCases(name, price) :
        Saved(save(products,
                   [FromRow(products, pk) EXCEPT !.name = name,
                                                 !.price = price],
                   {}, lookup, "ok", next_id),
              "save", name, price)

\* save() of an instance whose row was hard-deleted after it was loaded.
SaveStale ==
    /\ OnProducts
    /\ \E pk \in (1..(next_id - 1)) \ DOMAIN products,
       name \in Names, price \in PriceInputs :
      \E q \in QueueCases(name, price) :
        Saved(save(products, StaleInstance(pk, name, price), {}, "db", q,
                   next_id),
              "save", name, price)

\* product.soft_delete() on a loaded product
SoftDelete ==
    /\ OnProducts
    /\ \E pk \in DOMAIN products, now \in Times, lookup \in Lookups :
        LET inst == soft_delete(FromRow(products, pk), now)
        IN  Saved(save(products, inst, SoftDeleteFields, lookup, "ok",
                       next_id),
                  "soft_delete", inst.name, inst.price)

\* product.restore() on a loaded product
Restore ==
    /\ OnProducts
    /\ \E pk \in DOMAIN products, lookup \in Lookups :
        LET inst == restore(FromRow(products, pk))
        IN  Saved(save(products, inst, SoftDeleteFields, lookup, "ok",
                       next_id),
                  "restore", inst.name, inst.price)

\* bulk_update_product_status(product_ids, is_deleted): one
\* QuerySet.update(is_deleted=...) on the listed rows; update() calls no
\* save() and sends no signal, and writes no other column.
bulk_update_product_status(store, product_ids, is_deleted) ==
    [ i \in DOMAIN store |->
        IF i \in product_ids
        THEN [store[i] EXCEPT !.is_deleted = is_deleted]
        ELSE store[i] ]

BulkUpdate ==
    /\ OnProducts
    /\ \E product_ids \in (SUBSET ProductIds) \ {{}}, is_deleted \in BOOLEAN :
        /\ products' = bulk_update_product_status(products, product_ids,
                                                  is_deleted)
        /\ last' = [NoLast EXCEPT !.op = "bulk_update"]
        /\ UNCHANGED <<next_id, n_inserts, n_async_calls, clock, created_at>>

\* Model.delete() of one row (admin delete, seed_database --clear): the row
\* goes and post_delete fires.
hard_delete(store, pk) ==
    [ i \in DOMAIN store \ {pk} |-> store[i] ]

HardDelete ==
    /\ OnProducts
    /\ \E pk \in DOMAIN products :
        LET post == product_post_delete_handler(pk)
        IN  /\ products' = hard_delete(products, pk)
            /\ last' = [ NoLast EXCEPT
                           !.op = "hard_delete", !.pk = pk,
                           !.outcome = IF post.raised THEN "raised"
                                       ELSE "ok" ]
            /\ created_at' = [ i \in DOMAIN products' |-> created_at[i] ]
            /\ UNCHANGED <<next_id, n_inserts, n_async_calls, clock>>

\* Variant of perform_destroy that keeps ModelViewSet's instance.delete().
perform_destroy_hard(store, pk, now, lookup, nid) ==
    [ store |-> hard_delete(store, pk), outcome |-> "ok", pk |-> pk,
      created |-> FALSE, wrote |-> TRUE, pre |-> "none", q |-> "none",
      calls |-> 0, call |-> <<>>, queued |-> FALSE ]

\* ProductViewSet.perform_destroy(instance): instance.soft_delete().
perform_destroy(store, pk, now, lookup, nid) ==
    save(store, soft_delete(FromRow(store, pk), now), SoftDeleteFields,
         lookup, "ok", nid)

ApiFocus == {"api", "recent", "price_range"}

\* get_object(): the row with that pk in get_queryset(); ?active_only=true
\* filters soft-deleted rows out.
get_object(store, pk, active_only) ==
    /\ pk \in DOMAIN store
    /\ active_only => ~store[pk].is_deleted

\* DELETE /api/v1/products/{pk}/: permission (IsAuthenticated for destroy),
\* throttle, get_object, perform_destroy, 204.
ApiDestroy ==
    /\ OnProductApi(ApiFocus)
    /\ \E pk \in ProductIds, authenticated \in BOOLEAN, throttled \in BOOLEAN,
       active_only \in BOOLEAN :
      \E now \in IF authenticated /\ ~throttled THEN Times ELSE {1},
         lookup \in IF authenticated /\ ~throttled THEN Lookups ELSE {"db"} :
        LET req    == <<authenticated, throttled, active_only>>
            refuse == IF ~authenticated THEN 401
                      ELSE IF throttled THEN 429
                      ELSE IF ~get_object(products, pk, active_only) THEN 404
                      ELSE 0
        IN  IF refuse # 0
            THEN /\ last' = [ NoLast EXCEPT !.op = "api_destroy", !.pk = pk,
                                !.status = refuse, !.req = req ]
                 /\ UNCHANGED <<products, next_id, n_inserts, n_async_calls,
                                clock, created_at>>
            ELSE LET r == perform_destroy(products, pk, now, lookup, next_id)
                 IN  /\ products' = r.store
                     /\ n_async_calls' = n_async_calls + r.calls
                     /\ last' = [ NoLast EXCEPT
                                    !.op = "api_destroy", !.pk = pk,
                                    !.outcome = r.outcome, !.wrote = r.wrote,
                                    !.pre = r.pre, !.calls = r.calls,
                                    !.status = IF r.outcome = "ok" THEN 204
                                               ELSE 500,
                                    !.req = req ]
                     /\ UNCHANGED <<next_id, n_inserts, clock, created_at>>

\* Variant of the task that lets ObjectDoesNotExist reach the outer handler.
notify_new_product_raise_missing(store, product_id, lookup) ==
    IF lookup = "error" \/ product_id \notin DOMAIN store
    THEN [raised |-> TRUE, status |-> "", error |-> ""]
    ELSE [raised |-> FALSE, status |-> "success", error |-> ""]

\* notify_new_product(product_id, product_name): Product.objects.get; a
\* missing row is answered with the product_not_found result, a found one
\* with success, anything else raised by the lookup or the payload is
\* logged and re-raised.
notify_new_product(store, product_id, lookup) ==
    IF lookup = "error"
    THEN [raised |-> TRUE, status |-> "", error |-> ""]
    ELSE IF product_id \notin DOMAIN store
    THEN [raised |-> FALSE, status |-> "error", error |-> "product_not_found"]
    ELSE [raised |-> FALSE, status |-> "success", error |-> ""]

\* The task queue runs the job for some product id.
NotifyNewProduct ==
    /\ OnProducts
    /\ \E product_id \in ProductIds, lookup \in Lookups :
        /\ last' = [ NoLast EXCEPT
                       !.op = "notify", !.pk = product_id,
                       !.pre = IF lookup = "error" THEN "error" ELSE "none",
                       !.result = notify_new_product(products, product_id,
                                                     lookup) ]
        /\ UNCHANGED <<products, next_id, n_inserts, n_async_calls, clock,
                       created_at>>

\* ------------------------------------------- calculate_product_statistics
\* The names the module `core.models` holds, which `from core import
\* models` binds to `models` in tasks.py: its imports and its classes.
CoreModelsNames ==
    { "timedelta", "Decimal", "Any", "get_user_model", "ValidationError",
      "models", "QuerySet", "timezone", "slugify", "Product", "UserProfile",
      "Category", "Tag" }

\* calculate_product_statistics: building the aggregate's arguments
\* evaluates models.Q; an AttributeError is logged and raised again.  The
\* filter of active_products is Q(is_deleted=True).
calculate_product_statistics(store) ==
    IF "Q" \notin CoreModelsNames
    THEN [ raised |-> TRUE, status |-> "", error |-> "AttributeError",
           statistics |-> <<>> ]
    ELSE [ raised |-> FALSE, status |-> "success", error |-> "",
           statistics |->
             [ total_products  |-> Cardinality(DOMAIN store),
               active_products |->
                 Cardinality({ i \in DOMAIN store : store[i].is_deleted }) ] ]

\* The scheduler runs the statistics job.
CalculateStatistics ==
    /\ OnProducts
    /\ LET res == calculate_product_statistics(products)
       IN  last' = [ NoLast EXCEPT
                       !.op = "statistics",
                       !.result = [ raised |-> res.raised,
                                    status |-> res.status,
                                    error  |-> res.error ],
                       !.param = res.statistics ]
    /\ UNCHANGED <<products, next_id, n_inserts, n_async_calls, clock,
                   created_at>>

\* ------------------------------------------------------ /api/v1/products/
\* Who sends a request: nobody logged in, a logged-in user, a staff user.
Requesters == {"anon", "user", "staff"}

\* Variant of get_permissions that asks a login, not staff rights, for the
\* staff actions.
get_permissions_no_staff(action) ==
    IF action \in {"list", "retrieve", "recent"} THEN "AllowAny"
    ELSE "IsAuthenticated"

\* ProductViewSet.get_permissions: the permission class of each action.
get_permissions(action) ==
    IF action \in {"list", "retrieve", "recent"} THEN "AllowAny"
    ELSE IF action \in {"create", "update", "partial_update", "destroy"}
         THEN "IsAuthenticated"
    ELSE IF action \in {"deactivate", "activate"} THEN "IsAdminUser"
    ELSE "IsAuthenticated"

has_permission(permission, who) ==
    CASE permission = "AllowAny"        -> TRUE
      [] permission = "IsAuthenticated" -> who # "anon"
      [] permission = "IsAdminUser"     -> who = "staff"

\* What the framework answers before the handler runs: 401 or 403 from
\* the permission, 429 from the throttles, 0 to let the handler run.
initial(action, who, throttled) ==
    IF ~has_permission(get_permissions(action), who)
    THEN IF who = "anon" THEN 401 ELSE 403
    ELSE IF throttled THEN 429
    ELSE 0

\* The table part of a save made by a handler.
Stored(r) ==
    /\ r.created => (n_inserts < MaxInserts /\ r.pk \in ProductIds)
    /\ products' = r.store
    /\ next_id' = IF r.created /\ r.pk = next_id THEN next_id + 1 ELSE next_id
    /\ n_inserts' = IF r.created THEN n_inserts + 1 ELSE n_inserts
    /\ n_async_calls' = n_async_calls + r.calls
    /\ created_at' = stamp(created_at, r, clock)
    /\ clock' = clock

NothingStored ==
    UNCHANGED <<products, next_id, n_inserts, n_async_calls, clock,
                created_at>>

\* The price every POST sends and the price every PUT/PATCH sends, in cents.
PostPrice == 1000
PutPrice == 2000

\* POST /api/v1/products/ with a name and PostPrice.  The serializer's
\* CharField rejects a blank name (400); serializer.save() is Product.save,
\* whose ValidationError nothing catches (500).
ApiCreate ==
    /\ OnProductApi(ApiFocus)
    /\ \E who \in Requesters, throttled \in BOOLEAN :
      \E name \in IF initial("create", who, throttled) = 0
                  THEN {<<>>, <<"a", "b">>, <<"a", "b", "c">>}
                  ELSE {<<"a", "b", "c">>} :
        LET refuse == initial("create", who, throttled)
            r      == save(products, NewInstance(name, Dec(PostPrice)), {},
                           "db", "ok", next_id)
            seen   == [ NoLast EXCEPT !.op = "api_create", !.who = who,
                                      !.param = name ]
        IN  IF refuse # 0
            THEN last' = [seen EXCEPT !.status = refuse] /\ NothingStored
            ELSE IF strip(name) = <<>>
            THEN last' = [seen EXCEPT !.status = 400] /\ NothingStored
            ELSE /\ Stored(r)
                 /\ last' = [ seen EXCEPT
                                !.pk = r.pk, !.outcome = r.outcome,
                                !.created = r.created, !.wrote = r.wrote,
                                !.calls = r.calls, !.call = r.call,
                                !.queued = r.queued,
                                !.status = IF r.outcome = "ok" THEN 201
                                           ELSE 500 ]

\* PUT (update) or PATCH (partial_update) /api/v1/products/{pk}/ with
\* PutPrice: get_object, then serializer.save() is Product.save.
ApiUpdate ==
    /\ OnProductApi({"api", "price_range"})
    /\ \E who \in Requesters, throttled \in BOOLEAN, pk \in ProductIds,
          action \in {"update", "partial_update"} :
        LET refuse == initial(action, who, throttled)
            seen   == [ NoLast EXCEPT !.op = "api_update", !.who = who,
                                      !.pk = pk, !.param = action ]
        IN  IF refuse # 0
            THEN last' = [seen EXCEPT !.status = refuse] /\ NothingStored
            ELSE IF ~get_object(products, pk, FALSE)
            THEN last' = [seen EXCEPT !.status = 404] /\ NothingStored
            ELSE LET r == save(products,
                               [FromRow(products, pk) EXCEPT
                                  !.price = Dec(PutPrice)],
                               {}, "db", "ok", next_id)
                 IN  /\ Stored(r)
                     /\ last' = [ seen EXCEPT
                                    !.outcome = r.outcome, !.wrote = r.wrote,
                                    !.status = IF r.outcome = "ok" THEN 200
                                               ELSE 500 ]

\* GET /api/v1/products/ (list: every row of the queryset) and
\* GET /api/v1/products/{pk}/ (retrieve: get_object).
ApiRead ==
    /\ OnProductApi({"api"})
    /\ \E who \in Requesters, throttled \in BOOLEAN,
          action \in {"list", "retrieve"}, pk \in ProductIds :
        LET refuse == initial(action, who, throttled)
            seen   == [ NoLast EXCEPT !.op = "api_read", !.who = who,
                                      !.param = action ]
        IN  /\ last' =
                 IF refuse # 0 THEN [seen EXCEPT !.status = refuse]
                 ELSE IF action = "list"
                 THEN [seen EXCEPT !.status = 200, !.body = DOMAIN products]
                 ELSE IF ~get_object(products, pk, FALSE)
                 THEN [seen EXCEPT !.pk = pk, !.status = 404]
                 ELSE [seen EXCEPT !.pk = pk, !.status = 200, !.body = {pk}]
            /\ NothingStored

\* ---------------------------------------------- /api/v1/products/recent/
\* `days < 1 or days > 365`, and the default of query_params.get("days", 7)
MinDays == 1
MaxDays == 365
DefaultDays == 7

\* The days on which requests arrive: a first day, the next, and one from
\* which the first lies MaxDays + 1 days back and the second MaxDays.
Days == {1, 2, MaxDays + 2}

\* The days query parameter: absent, a string int() parses (to n), or a
\* string it does not ("abc", "1.5", "").
NoParam == [kind |-> "missing", n |-> 0]
DaysParams ==
    { NoParam, [kind |-> "str", n |-> 0] }
    \cup { [kind |-> "int", n |-> n] :
             n \in {0 - 1, 0, MinDays, MaxDays, MaxDays + 1} }

\* int(request.query_params.get("days", 7))
int(p) ==
    CASE p.kind = "missing" -> [raised |-> FALSE, value |-> DefaultDays]
      [] p.kind = "int"     -> [raised |-> FALSE, value |-> p.n]
      [] p.kind = "str"     -> [raised |-> TRUE, value |-> 0]

\* Variant of the handler without the is_deleted filter.
recent_with_deleted(store, created, p, now) ==
    LET days == int(p)
    IN  IF days.raised THEN [status |-> 500, body |-> {}]
        ELSE IF days.value < MinDays \/ days.value > MaxDays
        THEN [status |-> 400, body |-> {}]
        ELSE [ status |-> 200,
               body |-> { pk \in DOMAIN store :
                            created[pk] >= now - days.value } ]

\* ProductViewSet.recent once the request is let in: the ValueError of
\* int() is not caught (500); days out of range is 400; else the rows of
\* get_queryset() with created_at >= now - days and is_deleted = False (at
\* most MaxProducts of them, which is one page).
recent(store, created, p, now) ==
    LET days == int(p)
    IN  IF days.raised THEN [status |-> 500, body |-> {}]
        ELSE IF days.value < MinDays \/ days.value > MaxDays
        THEN [status |-> 400, body |-> {}]
        ELSE [ status |-> 200,
               body |-> { pk \in DOMAIN store :
                            /\ created[pk] >= now - days.value
                            /\ store[pk].is_deleted = FALSE } ]

\* The requester and the parameter do not meet: the permission does not
\* read the query and the handler does not read the requester, so the
\* parameters are varied for one requester.
ApiRecent ==
    /\ OnProductApi({"recent"})
    /\ \E who \in Requesters, throttled \in BOOLEAN :
      \E p \in IF who = "anon" /\ ~throttled THEN DaysParams ELSE {NoParam} :
        LET refuse == initial("recent", who, throttled)
            r      == recent(products, created_at, p, clock)
        IN  /\ last' = [ NoLast EXCEPT
                           !.op = "api_recent", !.who = who, !.param = p,
                           !.req = <<throttled>>,
                           !.status = IF refuse # 0 THEN refuse
                                      ELSE r.status,
                           !.body = IF refuse # 0 THEN {} ELSE r.body ]
            /\ NothingStored

\* A later day begins.
Tick ==
    /\ OnProductApi({"recent"})
    /\ \E day \in Days :
        /\ day > clock
        /\ clock' = day
        /\ last' = [NoLast EXCEPT !.op = "tick"]
        /\ UNCHANGED <<products, next_id, n_inserts, n_async_calls,
                       created_at>>

\* ----------------------------------------- /api/v1/products/price-range/
\* A min or max query parameter: absent, empty, a string Decimal() parses
\* (to cents), or one it does not.
PriceParams ==
    { [kind |-> "missing", cents |-> 0], [kind |-> "empty", cents |-> 0],
      [kind |-> "str", cents |-> 0] }
    \cup { [kind |-> "decimal", cents |-> c] :
             c \in {PostPrice - 1, PostPrice, PutPrice} }

\* Product.get_price_range(min_price, max_price)
get_price_range(store, min_price, max_price) ==
    { pk \in DOMAIN store :
        /\ store[pk].price >= min_price
        /\ store[pk].price <= max_price
        /\ store[pk].is_deleted = FALSE }

\* Variant of the handler that forgets the min > max test.
price_range_any_order(store, min, max) ==
    IF min.kind \in {"missing", "empty"} \/ max.kind \in {"missing", "empty"}
    THEN [status |-> 400, body |-> {}]
    ELSE IF min.kind = "str" \/ max.kind = "str"
    THEN [status |-> 500, body |-> {}]
    ELSE [ status |-> 200,
           body |-> get_price_range(store, min.cents, max.cents) ]

\* ProductViewSet.price_range once the request is let in.  `not min_price
\* or not max_price` is 400.  Decimal() of a string that is no number
\* raises decimal.InvalidOperation, an ArithmeticError, which `except
\* (ValueError, TypeError)` does not catch (500).  min > max is 400.
price_range(store, min, max) ==
    IF min.kind \in {"missing", "empty"} \/ max.kind \in {"missing", "empty"}
    THEN [status |-> 400, body |-> {}]
    ELSE IF min.kind = "str" \/ max.kind = "str"
    THEN [status |-> 500, body |-> {}]
    ELSE IF min.cents > max.cents
    THEN [status |-> 400, body |-> {}]
    ELSE [ status |-> 200,
           body |-> get_price_range(store, min.cents, max.cents) ]

\* price_range is not named in get_permissions, so it falls to the
\* default, IsAuthenticated.
ApiPriceRange ==
    /\ OnProductApi({"price_range"})
    /\ \E who \in Requesters, throttled \in BOOLEAN :
      \E min \in IF who = "user" /\ ~throttled THEN PriceParams
                 ELSE {[kind |-> "decimal", cents |-> PostPrice]},
         max \in IF who = "user" /\ ~throttled THEN PriceParams
                 ELSE {[kind |-> "decimal", cents |-> PostPrice]} :
        LET refuse == initial("price_range", who, throttled)
            r      == price_range(products, min, max)
        IN  /\ last' = [ NoLast EXCEPT
                           !.op = "api_price_range", !.who = who,
                           !.param = <<min, max>>, !.req = <<throttled>>,
                           !.status = IF refuse # 0 THEN refuse
                                      ELSE r.status,
                           !.body = IF refuse # 0 THEN {} ELSE r.body ]
            /\ NothingStored

\* ------------------------- /api/v1/products/{pk}/deactivate/ and activate/
\* ProductViewSet.deactivate and activate once the request is let in:
\* get_object (404); 400 when the product is already in the wanted state;
\* then product.deactivate() / product.activate(), methods Product does
\* not have (models.py: "deactivate() and activate() removed"), so the
\* call is an AttributeError (500) and nothing is stored.
set_active(store, pk, action) ==
    IF ~get_object(store, pk, FALSE)
    THEN [status |-> 404, outcome |-> "ok"]
    ELSE IF action = "deactivate" /\ store[pk].is_deleted
    THEN [status |-> 400, outcome |-> "ok"]
    ELSE IF action = "activate" /\ ~store[pk].is_deleted
    THEN [status |-> 400, outcome |-> "ok"]
    ELSE [status |-> 500, outcome |-> "AttributeError"]

ApiSetActive ==
    /\ OnProductApi({"api"})
    /\ \E who \in Requesters, throttled \in BOOLEAN, pk \in ProductIds,
          action \in {"deactivate", "activate"} :
        LET refuse == initial(action, who, throttled)
            r      == set_active(products, pk, action)
        IN  /\ last' = [ NoLast EXCEPT
                           !.op = "api_set_active", !.who = who, !.pk = pk,
                           !.param = action, !.req = <<throttled>>,
                           !.status = IF refuse # 0 THEN refuse
                                      ELSE r.status,
                           !.outcome = IF refuse # 0 THEN "ok"
                                       ELSE r.outcome ]
            /\ NothingStored

\* ------------------------------------------------------ accounts, profiles
UserIds == 1..MaxUsers
DbCases == {"ok", "error"}

NoULast ==
    [ op |-> "init", uid |-> None, outcome |-> "ok", cache |-> "none",
      db1 |-> "ok", db2 |-> "ok", before |-> 0, who |-> None, status |-> 0 ]

\* INSERT of a UserProfile row for a user that has `count` of them:
\* user is a OneToOneField, so a second row is an IntegrityError; `db` is
\* what the statement meets otherwise.
profile_insert(count, db) ==
    IF db = "ok" /\ count = 0
    THEN [ok |-> TRUE, count |-> count + 1]
    ELSE [ok |-> FALSE, count |-> count]

\* Variant of instance.profile.save() that only UPDATEs: a profile whose
\* row is gone is not written again.
profile_save_update_only(cache, count, db) ==
    IF cache = "unsaved"
    THEN profile_insert(count, db)
    ELSE [ok |-> db = "ok", count |-> count]

\* instance.profile.save(): INSERT when the cached profile was never
\* stored or its row is gone, UPDATE (no row added) otherwise.
profile_save(cache, count, db) ==
    IF cache = "unsaved" \/ count = 0
    THEN profile_insert(count, db)
    ELSE [ok |-> db = "ok", count |-> count]

\* post_save of User, first receiver.  UserProfile.objects.create builds
\* the profile (which caches it on the instance as instance.profile) and
\* then inserts it; a failure is caught and logged.
create_user_profile(created, cache, count, db) ==
    IF created
    THEN LET ins == profile_insert(count, db)
         IN  [ raised |-> FALSE, count |-> ins.count,
               cache |-> IF ins.ok THEN "saved" ELSE "unsaved" ]
    ELSE [raised |-> FALSE, count |-> count, cache |-> cache]

\* Variant of the second receiver without the create-if-missing path: it
\* only saves a profile whose row exists.
save_user_profile_no_retry(cache, count, db) ==
    [raised |-> FALSE, count |-> count]

\* post_save of User, second receiver.  hasattr(instance, "profile") is
\* true for a cached profile, or when the lookup finds the row; then the
\* profile is saved, else it is created.  A failure is caught and logged.
save_user_profile(cache, count, db) ==
    LET has == cache # "none" \/ count > 0
        w   == IF has THEN profile_save(cache, count, db)
               ELSE profile_insert(count, db)
    IN  [raised |-> FALSE, count |-> w.count]

\* User.save(): the row write, then the two receivers in connection order.
user_save(created, cache, count, db1, db2) ==
    LET h1 == create_user_profile(created, cache, count, db1)
        h2 == save_user_profile(h1.cache, h1.count, db2)
    IN  [ outcome |-> IF h1.raised \/ h2.raised THEN "raised" ELSE "ok",
          count |-> h2.count ]

\* UserFactory: username "user<n>" and email "<username>@example.com",
\* written here as the number alone and the number with "@".
FactoryUser(n) ==
    [ username |-> ToString(n), email |-> ToString(n) \o "@",
      is_superuser |-> FALSE ]

\* UserFactory() / User.objects.create_user(...): a new account.  A new
\* profile has the empty bio.
CreateUser ==
    /\ OnAccounts({"accounts", "profiles"})
    /\ \E db1 \in DbCases, db2 \in DbCases :
        LET uid == next_uid
            r   == user_save(TRUE, "none", 0, db1, db2)
        IN  /\ uid \in UserIds
            /\ users' = users \cup {uid}
            /\ next_uid' = next_uid + 1
            /\ profiles' = [ u \in users' |->
                               IF u = uid THEN r.count ELSE profiles[u] ]
            /\ auth_user' = [ u \in users' |->
                                IF u = uid
                                THEN FactoryUser(uid)
                                ELSE auth_user[u] ]
            /\ bio' = [u \in users' |-> IF u = uid THEN "" ELSE bio[u]]
            /\ subs' = subs
            /\ ulast' = [ NoULast EXCEPT
                            !.op = "create_user", !.uid = uid,
                            !.outcome = r.outcome, !.db1 = db1,
                            !.db2 = db2 ]

\* user.save() of an existing account; the instance either holds its
\* profile in cache ("saved") or not ("none").
SaveUser ==
    /\ OnAccounts({"accounts"})
    /\ \E uid \in users, cache \in {"none", "saved"}, db2 \in DbCases :
        LET r == user_save(FALSE, cache, profiles[uid], "ok", db2)
        IN  /\ profiles' = [profiles EXCEPT ![uid] = r.count]
            /\ ulast' = [ NoULast EXCEPT
                            !.op = "save_user", !.uid = uid,
                            !.outcome = r.outcome, !.cache = cache,
                            !.db2 = db2, !.before = profiles[uid] ]
            /\ UNCHANGED <<users, next_uid, auth_user, bio, subs>>

\* UserProfile rows deleted without their users (seed_database --clear,
\* admin).
DeleteProfile ==
    /\ OnAccounts({"accounts"})
    /\ \E uid \in users :
        /\ profiles[uid] > 0
        /\ profiles' = [profiles EXCEPT ![uid] = 0]
        /\ ulast' = [NoULast EXCEPT !.op = "delete_profile", !.uid = uid]
        /\ UNCHANGED <<users, next_uid, auth_user, bio, subs>>

\* User rows deleted; on_delete=CASCADE takes the profile along.
DeleteUser ==
    /\ OnAccounts({"accounts"})
    /\ \E uid \in users :
        /\ users' = users \ {uid}
        /\ profiles' = [u \in users' |-> profiles[u]]
        /\ auth_user' = [u \in users' |-> auth_user[u]]
        /\ bio' = [u \in users' |-> bio[u]]
        /\ ulast' = [NoULast EXCEPT !.op = "delete_user", !.uid = uid]
        /\ UNCHANGED <<next_uid, subs>>

\* ------------------------------------- create_superuser_if_none_exists
\* The --username values the command is run with ("admin" is the default)
\* and the usernames other accounts are created with.
SuperuserNames == {"admin", "root"}

\* UserFactory(username=...): an account that is not a superuser; the
\* username column is unique.
CreateNamedUser ==
    /\ OnAccounts({"superuser"})
    /\ \E username \in SuperuserNames :
        LET uid == next_uid
            r   == user_save(TRUE, "none", 0, "ok", "ok")
        IN  /\ uid \in UserIds
            /\ \A u \in users : auth_user[u].username # username
            /\ users' = users \cup {uid}
            /\ next_uid' = next_uid + 1
            /\ profiles' = [ u \in users' |->
                               IF u = uid THEN r.count ELSE profiles[u] ]
            /\ auth_user' = [ u \in users' |->
                                IF u = uid
                                THEN [ username |-> username,
                                       email |-> username \o "@example.com",
                                       is_superuser |-> FALSE ]
                                ELSE auth_user[u] ]
            /\ bio' = [u \in users' |-> IF u = uid THEN "" ELSE bio[u]]
            /\ subs' = subs
            /\ ulast' = [ NoULast EXCEPT
                            !.op = "create_user", !.uid = uid,
                            !.outcome = r.outcome ]

\* The accounts and their profile counts, as one value.
Accounts(us, table, profs) ==
    [users |-> us, auth_user |-> table, profiles |-> profs]

\* Variant of the command without the test for an existing superuser.
handle_unconditional(acc, username, nid, db1, db2) ==
    IF \E u \in acc.users : acc.auth_user[u].username = username
    THEN [outcome |-> "error", acc |-> acc]
    ELSE LET us == acc.users \cup {nid}
             r  == user_save(TRUE, "none", 0, db1, db2)
         IN  [ outcome |-> "created",
               acc |-> Accounts(
                   us,
                   [ u \in us |->
                       IF u = nid
                       THEN [ username |-> username,
                              email |-> username \o "@example.com",
                              is_superuser |-> TRUE ]
                       ELSE acc.auth_user[u] ],
                   [ u \in us |->
                       IF u = nid THEN r.count ELSE acc.profiles[u] ]) ]

\* Command.handle: return when a superuser exists; else create_superuser,
\* whose IntegrityError (the username is taken) is caught and printed.
\* db1 and db2 are what the profile writes of the post_save receivers
\* meet.
handle(acc, username, nid, db1, db2) ==
    IF \E u \in acc.users : acc.auth_user[u].is_superuser
    THEN [outcome |-> "skipped", acc |-> acc]
    ELSE IF \E u \in acc.users : acc.auth_user[u].username = username
    THEN [outcome |-> "error", acc |-> acc]
    ELSE LET us == acc.users \cup {nid}
             r  == user_save(TRUE, "none", 0, db1, db2)
         IN  [ outcome |-> "created",
               acc |-> Accounts(
                   us,
                   [ u \in us |->
                       IF u = nid
                       THEN [ username |-> username,
                              email |-> username \o "@example.com",
                              is_superuser |-> TRUE ]
                       ELSE acc.auth_user[u] ],
                   [ u \in us |->
                       IF u = nid THEN r.count ELSE acc.profiles[u] ]) ]

\* python manage.py create_superuser_if_none_exists --username ...
CreateSuperuserIfNoneExists ==
    /\ OnAccounts({"superuser"})
    /\ \E username \in SuperuserNames, db1 \in DbCases, db2 \in DbCases :
        LET h == handle(Accounts(users, auth_user, profiles), username,
                        next_uid, db1, db2)
        IN  /\ h.outcome = "created" => next_uid \in UserIds
            /\ users' = h.acc.users
            /\ auth_user' = h.acc.auth_user
            /\ profiles' = h.acc.profiles
            /\ next_uid' = IF h.outcome = "created" THEN next_uid + 1
                           ELSE next_uid
            /\ bio' = [u \in users' |-> IF u \in users THEN bio[u] ELSE ""]
            /\ subs' = subs
            /\ ulast' = [ NoULast EXCEPT
                            !.op = "create_superuser_if_none_exists",
                            !.outcome = h.outcome,
                            !.who = username,
                            !.db1 = IF h.outcome = "created" THEN db1
                                    ELSE "ok",
                            !.db2 = IF h.outcome = "created" THEN db2
                                    ELSE "ok" ]

\* ------------------------------------------------------ /api/v1/profiles/
\* UserProfileViewSet.get_permissions
profile_get_permissions(action) ==
    IF action \in {"list", "retrieve"} THEN "AllowAny"
    ELSE IF action \in {"update", "partial_update"} THEN "IsAuthenticated"
    ELSE IF action = "me" THEN "IsAuthenticated"
    ELSE "IsAdminUser"

profile_initial(action, who, throttled) ==
    IF ~has_permission(profile_get_permissions(action),
                       IF who = None THEN "anon" ELSE "user")
    THEN 401
    ELSE IF throttled THEN 429
    ELSE 0

\* The bio every PUT/PATCH sends.
NewBio == "new bio"

\* PUT/PATCH /api/v1/profiles/{pk}/ by `who` (None: nobody logged in; else
\* a user without staff rights) on the profile of `owner`: permission,
\* throttle, get_object over UserProfile.objects.all(), serializer.save().
\* No step compares the requester with the profile's user.
ApiUpdateProfile ==
    /\ OnAccounts({"profiles"})
    /\ \E who \in {None} \cup users, throttled \in BOOLEAN,
          action \in {"update", "partial_update"} :
      \E owner \in IF profile_initial(action, who, throttled) = 0
                   THEN UserIds ELSE {1} :
        LET refuse == profile_initial(action, who, throttled)
            status == IF refuse # 0 THEN refuse
                      ELSE IF owner \notin users THEN 404
                      ELSE IF profiles[owner] = 0 THEN 404
                      ELSE 200
        IN  /\ bio' = IF status = 200 THEN [bio EXCEPT ![owner] = NewBio]
                      ELSE bio
            /\ ulast' = [ NoULast EXCEPT
                            !.op = "api_update_profile", !.uid = owner,
                            !.who = who, !.status = status ]
            /\ UNCHANGED <<users, next_uid, profiles, auth_user, subs>>

\* PUT/PATCH /api/v1/profiles/me/: request.user.profile, which raises
\* RelatedObjectDoesNotExist for a user without a profile row (500), then
\* serializer.save().
ApiMe ==
    /\ OnAccounts({"profiles"})
    /\ \E who \in {None} \cup users, throttled \in BOOLEAN :
        LET refuse == profile_initial("me", who, throttled)
            status == IF refuse # 0 THEN refuse
                      ELSE IF profiles[who] = 0 THEN 500
                      ELSE 200
        IN  /\ bio' = IF status = 200 THEN [bio EXCEPT ![who] = NewBio]
                      ELSE bio
            /\ ulast' = [ NoULast EXCEPT
                            !.op = "api_me", !.uid = who, !.who = who,
                            !.status = status ]
            /\ UNCHANGED <<users, next_uid, profiles, auth_user, subs>>

\* ------------------------------------------------------- registration page
MaxSubmissions == 2
Submissions == 1..MaxSubmissions

Usernames == {"ann", "bob"}
Emails == {"a@x.io", "b@x.io"}

\* A submission slot: idle, or a POST whose form has validated and whose
\* save has not run yet.
NoSub == [pc |-> "idle", username |-> "", email |-> ""]

\* RegisterForm.clean_email: User.objects.filter(email=email).exists()
clean_email(table, email) ==
    IF \E u \in DOMAIN table : table[u].email = email
    THEN "ValidationError" ELSE "ok"

\* The username uniqueness check of the form (UserCreationForm).
clean_username(table, username) ==
    IF \E u \in DOMAIN table : table[u].username = username
    THEN "ValidationError" ELSE "ok"

\* form.is_valid() for the two fields that read the table.
is_valid(table, username, email) ==
    /\ clean_username(table, username) = "ok"
    /\ clean_email(table, email) = "ok"

\* register_view, first half: POST with a username and an email;
\* form.is_valid() reads the table as it is now.  An invalid form is
\* answered at once (the page again, with the errors).
RegisterSubmit ==
    /\ OnAccounts({"register"})
    /\ \E p \in Submissions, username \in Usernames, email \in Emails :
        /\ subs[p].pc = "idle"
        /\ IF is_valid(auth_user, username, email)
           THEN /\ subs' = [subs EXCEPT ![p] = [ pc |-> "valid",
                                                 username |-> username,
                                                 email |-> email ]]
                /\ ulast' = [NoULast EXCEPT !.op = "register_valid"]
           ELSE /\ subs' = subs
                /\ ulast' = [ NoULast EXCEPT
                                !.op = "register_rejected",
                                !.outcome = clean_email(auth_user, email) ]
        /\ UNCHANGED <<users, next_uid, profiles, auth_user, bio>>

\* register_view, second half: form.save() of a validated form.  The
\* INSERT meets the unique index on username (IntegrityError, not caught);
\* no index guards email.  post_save then runs the two profile receivers.
RegisterSave ==
    /\ OnAccounts({"register"})
    /\ \E p \in Submissions :
        /\ subs[p].pc = "valid"
        /\ subs' = [subs EXCEPT ![p] = NoSub]
        /\ IF clean_username(auth_user, subs[p].username) # "ok"
           THEN /\ ulast' = [ NoULast EXCEPT !.op = "register_error",
                                             !.status = 500 ]
                /\ UNCHANGED <<users, next_uid, profiles, auth_user, bio>>
           ELSE LET uid == next_uid
                    r   == user_save(TRUE, "none", 0, "ok", "ok")
                IN  /\ uid \in UserIds
                    /\ users' = users \cup {uid}
                    /\ next_uid' = next_uid + 1
                    /\ profiles' = [ u \in users' |->
                                       IF u = uid THEN r.count
                                       ELSE profiles[u] ]
                    /\ auth_user' = [ u \in users' |->
                                        IF u = uid
                                        THEN [ username |-> subs[p].username,
                                               email |-> subs[p].email,
                                               is_superuser |-> FALSE ]
                                        ELSE auth_user[u] ]
                    /\ bio' = [u \in users' |-> IF u = uid THEN "" ELSE bio[u]]
                    /\ ulast' = [ NoULast EXCEPT
                                    !.op = "create_user", !.uid = uid,
                                    !.outcome = r.outcome, !.status = 302 ]

\* ---------------------------------------------------- rate_limit decorator
MaxSeconds == 3
Seconds == 0..MaxSeconds

\* request.META["REMOTE_ADDR"] of the clients
Identifiers == {"10.0.0.1", "10.0.0.2"}

\* The (max_requests, period) a view is decorated with.
Decorations == { [max_requests |-> 1, period |-> 2],
                 [max_requests |-> 2, period |-> 2] }

NoRLast ==
    [ op |-> "init", identifier |-> "", accepts_json |-> FALSE,
      called |-> FALSE, status |-> 0, before |-> 0 ]

\* [t for t in times if now - t < period]
RECURSIVE within(_, _, _)
within(times, now, period) ==
    IF times = <<>> THEN <<>>
    ELSE IF now - Head(times) < period
         THEN <<Head(times)>> \o within(Tail(times), now, period)
         ELSE within(Tail(times), now, period)

\* Variant of the limiter that never drops the requests outside the window.
is_rate_limited_no_pruning(reqs, identifier, max_requests, period, now) ==
    IF Len(reqs[identifier]) >= max_requests
    THEN [limited |-> TRUE, requests |-> reqs]
    ELSE [ limited |-> FALSE,
           requests |-> [reqs EXCEPT ![identifier] = Append(@, now)] ]

\* SimpleRateLimiter.is_rate_limited: drop the identifier's requests
\* outside the window, refuse when max_requests remain, else record this
\* one.
is_rate_limited(reqs, identifier, max_requests, period, now) ==
    LET kept == within(reqs[identifier], now, period)
    IN  IF Len(kept) >= max_requests
        THEN [ limited |-> TRUE,
               requests |-> [reqs EXCEPT ![identifier] = kept] ]
        ELSE [ limited |-> FALSE,
               requests |-> [reqs EXCEPT ![identifier] = Append(kept, now)] ]

\* The wrapper of rate_limit around a view: a refused request is answered
\* 429 when the client accepts JSON and 403 otherwise, and the view is not
\* called; an admitted one is answered by the view (200).
LimitedRequest ==
    /\ OnLimiter
    /\ \E identifier \in Identifiers, accepts_json \in BOOLEAN :
        LET r == is_rate_limited(requests, identifier, limit.max_requests,
                                 limit.period, now_s)
        IN  /\ requests' = r.requests
            /\ admitted' = IF r.limited THEN admitted
                           ELSE [admitted EXCEPT ![identifier] =
                                                    Append(@, now_s)]
            /\ rlast' = [ op |-> "request", identifier |-> identifier,
                          accepts_json |-> accepts_json,
                          called |-> ~r.limited,
                          status |-> IF ~r.limited THEN 200
                                     ELSE IF accepts_json THEN 429 ELSE 403,
                          before |-> Len(within(admitted[identifier], now_s,
                                                limit.period)) ]
            /\ UNCHANGED <<now_s, limit>>

\* time.time() moves on by a second.
LimiterTick ==
    /\ OnLimiter
    /\ now_s < MaxSeconds
    /\ now_s' = now_s + 1
    /\ rlast' = [NoRLast EXCEPT !.op = "tick"]
    /\ UNCHANGED <<requests, limit, admitted>>

\* ------------------------------------- is_rate_limited, several threads
MaxThreads == 2
Threads == 1..MaxThreads

\* The one client all the threads serve.
SharedIdentifier == "10.0.0.1"

\* A thread outside is_rate_limited, its request not yet made.
NoThread == [pc |-> "idle", now |-> 0, kept |-> <<>>, limited |-> FALSE]

\* now = time.time(), and the list comprehension over
\* self.requests[identifier] is evaluated into a new list.
ThreadEnter ==
    /\ OnThreads
    /\ \E t \in Threads :
        /\ threads[t].pc = "idle"
        /\ threads' = [threads EXCEPT ![t] =
                         [ pc |-> "assign", now |-> now_s,
                           kept |-> within(requests[SharedIdentifier], now_s,
                                           limit.period),
                           limited |-> FALSE ]]
    /\ UNCHANGED lvars

\* self.requests[identifier] = <the new list>
ThreadAssign ==
    /\ OnThreads
    /\ \E t \in Threads :
        /\ threads[t].pc = "assign"
        /\ requests' = [requests EXCEPT ![SharedIdentifier] = threads[t].kept]
        /\ threads' = [threads EXCEPT ![t].pc = "check"]
    /\ UNCHANGED <<now_s, limit, admitted, rlast>>

\* if len(self.requests[identifier]) >= max_requests: return True
ThreadCheck ==
    /\ OnThreads
    /\ \E t \in Threads :
        /\ threads[t].pc = "check"
        /\ threads' =
             IF Len(requests[SharedIdentifier]) >= limit.max_requests
             THEN [threads EXCEPT ![t].pc = "returned", ![t].limited = TRUE]
             ELSE [threads EXCEPT ![t].pc = "append"]
    /\ UNCHANGED lvars

\* self.requests[identifier].append(now); return False
ThreadAppend ==
    /\ OnThreads
    /\ \E t \in Threads :
        /\ threads[t].pc = "append"
        /\ requests' = [requests EXCEPT ![SharedIdentifier] =
                                           Append(@, threads[t].now)]
        /\ threads' = [threads EXCEPT ![t].pc = "returned"]
    /\ UNCHANGED <<now_s, limit, admitted, rlast>>

\* ------------------------------------------------- cache_result decorator
MaxCacheTime == 3

\* The timeout the function is decorated with, the argument tuples it is
\* called with and the values it returns ("None" is Python's None).
Timeout == 2
CacheKeys == {"(1,)", "(2,)"}
Returns == {"None", "x"}

NoEntry == [value |-> "None", expires |-> 0]

NoKLast ==
    [ op |-> "init", key |-> "", ran |-> FALSE, result |-> "None",
      fresh |-> FALSE, stored |-> "None" ]

\* cache.get(key): the stored value, None when the key is absent or its
\* entry has expired.
cache_get(entries, key, now) ==
    IF entries[key].expires <= now THEN "None" ELSE entries[key].value

\* cache.set(key, value, timeout)
cache_set(entries, key, value, timeout, now) ==
    [entries EXCEPT ![key] = [value |-> value, expires |-> now + timeout]]

\* wrapper of cache_result: a result that `is not None` is returned from
\* the cache; otherwise func runs (returning `returns`) and its result is
\* stored.
wrapper(entries, key, returns, timeout, now) ==
    LET result == cache_get(entries, key, now)
    IN  IF result # "None"
        THEN [ran |-> FALSE, result |-> result, cache |-> entries]
        ELSE [ ran |-> TRUE, result |-> returns,
               cache |-> cache_set(entries, key, returns, timeout, now) ]

\* A call of the decorated function, which returns `returns` if it runs.
CachedCall ==
    /\ OnCache
    /\ \E key \in CacheKeys, returns \in Returns :
        LET fresh == django_cache[key].expires > cache_now
            w     == wrapper(django_cache, key, returns, Timeout, cache_now)
        IN  /\ django_cache' = w.cache
            /\ klast' = [ op |-> "call", key |-> key, ran |-> w.ran,
                          result |-> w.result, fresh |-> fresh,
                          stored |-> django_cache[key].value ]
    /\ UNCHANGED cache_now

\* time.time() moves on by a second.
CacheTick ==
    /\ OnCache
    /\ cache_now < MaxCacheTime
    /\ cache_now' = cache_now + 1
    /\ klast' = [NoKLast EXCEPT !.op = "tick"]
    /\ UNCHANGED django_cache

\* -------------------------------------------------------------- categories
CategoryIds == 1..MaxCategories

NoCLast == [op |-> "init", id |-> None, parent |-> None, status |-> 0]

\* CategorySerializer.validate_parent(value) with self.instance: rejects
\* the category itself and a parent whose own parent is the category.
validate_parent(store, instance, value) ==
    IF value # None /\ instance # None
    THEN IF value = instance THEN "error"
         ELSE IF store[value].parent # None /\ store[value].parent = instance
              THEN "error"
         ELSE "ok"
    ELSE "ok"

\* Category.get_ancestors: follow parent until None.  The walk is cut
\* after `fuel` steps, which is every category once.
RECURSIVE walk_ancestors(_, _, _)
walk_ancestors(store, current, fuel) ==
    IF current = None \/ fuel = 0 THEN <<>>
    ELSE <<current>> \o walk_ancestors(store, store[current].parent, fuel - 1)

get_ancestors(store, c) ==
    walk_ancestors(store, store[c].parent, Cardinality(DOMAIN store))

\* POST /api/v1/categories/ with parent `value` (null or an existing id)
ApiCreateCategory ==
    /\ OnCategories
    /\ \E value \in {None} \cup DOMAIN categories :
        LET id == Cardinality(DOMAIN categories) + 1
            v  == validate_parent(categories, None, value)
        IN  /\ id \in CategoryIds
            /\ v = "ok"
            /\ categories' =
                 [ c \in DOMAIN categories \cup {id} |->
                     IF c = id
                     THEN [ parent |-> value, is_deleted |-> FALSE,
                            deleted_at |-> None ]
                     ELSE categories[c] ]
            /\ clast' = [ op |-> "create", id |-> id, parent |-> value,
                          status |-> 201 ]

\* PUT/PATCH /api/v1/categories/{id}/ with parent `value`
ApiUpdateCategory ==
    /\ OnCategories
    /\ \E id \in DOMAIN categories, value \in {None} \cup DOMAIN categories :
        LET v == validate_parent(categories, id, value)
        IN  IF v = "ok"
            THEN /\ categories' = [categories EXCEPT ![id].parent = value]
                 /\ clast' = [ op |-> "update", id |-> id, parent |-> value,
                               status |-> 200 ]
            ELSE /\ categories' = categories
                 /\ clast' = [ op |-> "update", id |-> id, parent |-> value,
                               status |-> 400 ]

\* category.soft_delete() / category.restore(): Category.save does not
\* validate, so the two fields are written as assigned.
SoftDeleteCategory ==
    /\ OnCategories
    /\ \E id \in DOMAIN categories, now \in Times :
        /\ categories' =
             [categories EXCEPT ![id] = soft_delete(categories[id], now)]
        /\ clast' = [ op |-> "soft_delete", id |-> id, parent |-> None,
                      status |-> 0 ]

RestoreCategory ==
    /\ OnCategories
    /\ \E id \in DOMAIN categories :
        /\ categories' = [categories EXCEPT ![id] = restore(categories[id])]
        /\ clast' = [ op |-> "restore", id |-> id, parent |-> None,
                      status |-> 0 ]

\* Variant of build_tree that lists the soft-deleted children too.
RECURSIVE build_tree_with_deleted(_, _)
build_tree_with_deleted(store, category) ==
    LET children == { c \in DOMAIN store : store[c].parent = category }
    IN  IF children # {}
        THEN [ id |-> category, has_children |-> TRUE,
               children |-> { build_tree_with_deleted(store, c) :
                                c \in children } ]
        ELSE [id |-> category, has_children |-> FALSE, children |-> {}]

\* build_tree(category) of CategoryViewSet.tree: the category's data, and
\* under the key "children" (set only when there are any) the trees of
\* category.children.filter(is_deleted=False).
RECURSIVE build_tree(_, _)
build_tree(store, category) ==
    LET children == { c \in DOMAIN store :
                        /\ store[c].parent = category
                        /\ store[c].is_deleted = FALSE }
    IN  IF children # {}
        THEN [ id |-> category, has_children |-> TRUE,
               children |-> { build_tree(store, c) : c \in children } ]
        ELSE [id |-> category, has_children |-> FALSE, children |-> {}]

\* Variant of tree that also starts from the live categories whose parent
\* is soft-deleted.
tree_orphans_as_roots(store) ==
    { build_tree(store, c) :
        c \in { r \in DOMAIN store :
                  /\ store[r].is_deleted = FALSE
                  /\ \/ store[r].parent = None
                     \/ store[store[r].parent].is_deleted } }

\* CategoryViewSet.tree: build_tree of every category with no parent and
\* is_deleted = False.
tree(store) ==
    { build_tree(store, c) :
        c \in { r \in DOMAIN store : /\ store[r].parent = None
                                     /\ store[r].is_deleted = FALSE } }

\* GET /api/v1/categories/tree/ (IsAuthenticatedOrReadOnly lets every GET
\* in; the throttles may refuse it).
ApiTree ==
    /\ OnCategories
    /\ \E throttled \in BOOLEAN :
        /\ clast' = [ op |-> "tree", id |-> None, parent |-> None,
                      status |-> IF throttled THEN 429 ELSE 200,
                      body |-> IF throttled THEN {} ELSE tree(categories) ]
        /\ categories' = categories

\* ------------------------------------------------- Product.apply_discount
MaxDiscounts == 2

\* Prices (cents) the factory gives a product and percentages a caller
\* passes.
DiscountPrices == {1, 5, 10000}
Percentages == {0, 10, 50, 100}

\* ProductFactory(price=...): Product.objects.create with a valid name.
FactoryProduct ==
    /\ OnDiscount
    /\ UNCHANGED n_discounts
    /\ \E cents \in DiscountPrices :
        Saved(save(products, NewInstance(<<"a", "b", "c">>, Dec(cents)), {},
                   "db", "ok", next_id),
              "save", <<"a", "b", "c">>, Dec(cents))

\* Decimal.quantize(Decimal("0.01")) of n/d cents, n >= 0, under the default
\* context: ROUND_HALF_EVEN.
quantize(n, d) ==
    LET q == n \div d
        r == n % d
    IN  IF 2 * r < d THEN q
        ELSE IF 2 * r > d THEN q + 1
        ELSE IF q % 2 = 0 THEN q ELSE q + 1

\* What a call that never reaches the row write reports.
NotSaved(store, inst, outcome) ==
    [ store |-> store, outcome |-> outcome, pk |-> inst.pk,
      created |-> FALSE, wrote |-> FALSE, pre |-> "none", q |-> "none",
      calls |-> 0, call |-> <<>>, queued |-> FALSE, log |-> NoLog ]

\* Variant of apply_discount without the range test.
apply_discount_no_range_test(store, inst, percentage, lookup, nid) ==
    LET discount_amount == inst.price.cents * percentage
        inst2 == [inst EXCEPT !.price =
                    Dec(quantize(inst.price.cents * 100 - discount_amount,
                                 100))]
    IN  [ inst |-> inst2,
          r    |-> save(store, inst2, {}, lookup, "ok", nid) ]

\* Product.apply_discount: the range test, the assignment to self.price,
\* then self.save().  discount_amount is in hundredths of a cent.  Returns
\* the instance as the call leaves it and what the save did.
apply_discount(store, inst, percentage, lookup, nid) ==
    IF ~(0 < percentage /\ percentage < 100)
    THEN [ inst |-> inst, r |-> NotSaved(store, inst, "ValueError") ]
    ELSE LET discount_amount == inst.price.cents * percentage
             inst2 == [inst EXCEPT !.price =
                         Dec(quantize(inst.price.cents * 100 - discount_amount,
                                      100))]
         IN  [ inst |-> inst2,
               r    |-> save(store, inst2, {}, lookup, "ok", nid) ]

\* product = Product.objects.get(pk); product.apply_discount(percentage)
ApplyDiscount ==
    /\ OnDiscount
    /\ n_discounts < MaxDiscounts
    /\ n_discounts' = n_discounts + 1
    /\ \E pk \in DOMAIN products, percentage \in Percentages :
        LET inst == FromRow(products, pk)
            a    == apply_discount(products, inst, percentage, "db", next_id)
        IN  /\ Stored(a.r)
            /\ last' = [ NoLast EXCEPT
                           !.op = "apply_discount", !.pk = pk,
                           !.outcome = a.r.outcome, !.wrote = a.r.wrote,
                           !.pre = a.r.pre,
                           !.percentage = percentage,
                           !.before = products[pk].price,
                           !.memory = a.inst.price.cents ]

\* ----------------------------------------------------------- specification
Focus == {"products", "api", "recent", "price_range", "accounts", "profiles",
          "register", "categories", "limiter", "discount", "superuser",
          "threads", "cache"}

Init ==
    /\ focus \in Focus
    /\ products = <<>>
    /\ next_id = 1
    /\ n_inserts = 0
    /\ n_async_calls = 0
    /\ last = NoLast
    /\ clock = 1
    /\ created_at = <<>>
    /\ users = {}
    /\ next_uid = 1
    /\ profiles = <<>>
    /\ ulast = NoULast
    /\ auth_user = <<>>
    /\ bio = <<>>
    /\ subs = [p \in Submissions |-> NoSub]
    /\ requests = [i \in Identifiers |-> <<>>]
    /\ now_s = 0
    /\ limit \in IF focus = "limiter" THEN Decorations
                  ELSE IF focus = "threads"
                       THEN {[max_requests |-> 1, period |-> 2]}
                  ELSE {[max_requests |-> 2, period |-> 2]}
    /\ admitted = [i \in Identifiers |-> <<>>]
    /\ rlast = NoRLast
    /\ categories = <<>>
    /\ clast = NoCLast
    /\ n_discounts = 0
    /\ threads = [t \in Threads |-> NoThread]
    /\ django_cache = [k \in CacheKeys |-> NoEntry]
    /\ cache_now = 0
    /\ klast = NoKLast

Next ==
    \/ CreateProduct
    \/ UpdateProduct
    \/ SaveStale
    \/ SoftDelete
    \/ Restore
    \/ BulkUpdate
    \/ HardDelete
    \/ ApiDestroy
    \/ NotifyNewProduct
    \/ ApiCreate
    \/ ApiUpdate
    \/ ApiRead
    \/ ApiRecent
    \/ Tick
    \/ ApiPriceRange
    \/ ApiSetActive
    \/ CreateUser
    \/ SaveUser
    \/ DeleteProfile
    \/ DeleteUser
    \/ ApiUpdateProfile
    \/ ApiMe
    \/ RegisterSubmit
    \/ RegisterSave
    \/ LimitedRequest
    \/ LimiterTick
    \/ ApiCreateCategory
    \/ ApiUpdateCategory
    \/ SoftDeleteCategory
    \/ RestoreCategory
    \/ ApiTree
    \/ FactoryProduct
    \/ ApplyDiscount
    \/ CalculateStatistics
    \/ CreateNamedUser
    \/ CreateSuperuserIfNoneExists
    \/ ThreadEnter
    \/ ThreadAssign
    \/ ThreadCheck
    \/ ThreadAppend
    \/ CachedCall
    \/ CacheTick

Spec == Init /\ [][Next]_vars

\* ================================================================== claims
SavingOps == {"save", "soft_delete", "restore", "api_destroy"}

\* C1: a save that creates a Product row makes exactly one async_task call,
\* carrying the new row's id and name; a save that updates a row (price or
\* name change, soft_delete, restore) makes none; so the number of calls
\* always equals the number of rows created.
C1_EnqueueOncePerCreate ==
    /\ [](n_async_calls = n_inserts)
    /\ [][ last'.op \in SavingOps =>
             LET new == DOMAIN products' \ DOMAIN products
             IN  IF new # {}
                 THEN /\ n_async_calls' = n_async_calls + 1
                      /\ \A id \in new :
                            last'.call = <<id, products'[id].name>>
                 ELSE n_async_calls' = n_async_calls ]_vars

C1_Witness ==
    /\ last.op \in {"save", "soft_delete", "restore"}
    /\ last.wrote /\ ~last.created
    /\ n_inserts >= 1 /\ n_async_calls >= 1

\* C2: after soft_delete the stored record has is_deleted = TRUE and a
\* non-null deleted_at, after restore is_deleted = FALSE and deleted_at
\* null, for Product and Category alike and from every earlier state of
\* the two fields.
C2_SoftDeleteRestoreStored ==
    /\ last.op = "soft_delete" =>
          /\ last.pk \in DOMAIN products
          /\ products[last.pk].is_deleted = TRUE
          /\ products[last.pk].deleted_at # None
    /\ last.op = "restore" =>
          /\ last.pk \in DOMAIN products
          /\ products[last.pk].is_deleted = FALSE
          /\ products[last.pk].deleted_at = None
    /\ clast.op = "soft_delete" =>
          /\ categories[clast.id].is_deleted = TRUE
          /\ categories[clast.id].deleted_at # None
    /\ clast.op = "restore" =>
          /\ categories[clast.id].is_deleted = FALSE
          /\ categories[clast.id].deleted_at = None

C2_Witness ==
    /\ last.op = "soft_delete"
    /\ last.pk \in DOMAIN products
    /\ products[last.pk].is_deleted
    /\ products[last.pk].deleted_at \in Times

C4_ApiDeleteIsSoft ==
    [][ last'.op = "api_destroy" =>
          LET pk    == last'.pk
              found == /\ pk \in DOMAIN products
                       /\ last'.req[3] => ~products[pk].is_deleted
              pass  == last'.req[1] /\ ~last'.req[2] /\ found
          IN  /\ DOMAIN products' = DOMAIN products
              /\ pass => /\ last'.status = 204
                         /\ products'[pk].is_deleted = TRUE
              /\ ~pass => /\ last'.status \in {401, 404, 429}
                          /\ products' = products ]_vars

C4_Witness ==
    /\ last.op = "api_destroy"
    /\ last.status = 204
    /\ last.pk \in DOMAIN products
    /\ products[last.pk].is_deleted

\* C5: a Product save whose price is <= 0 or not a number is rejected with
\* a validation error and writes nothing, and no stored price is <= 0 or
\* above 9999999.99.
C5_BadPriceIsValidationError ==
    /\ (last.op = "save" /\ last.bad_price) =>
          (last.outcome = "ValidationError" /\ ~last.wrote)
    /\ \A pk \in DOMAIN products :
          products[pk].price > 0 /\ products[pk].price <= MaxPriceCents

\* C6: a Product save whose name is empty, whitespace only or shorter than
\* 3 characters after trimming is rejected with a validation error and
\* writes nothing, and every stored name is trimmed.
C6_BadNameIsValidationError ==
    /\ (last.op = "save" /\ last.bad_name) =>
          (last.outcome = "ValidationError" /\ ~last.wrote)
    /\ \A pk \in DOMAIN products :
          /\ IsTrimmed(products[pk].name)
          /\ Len(products[pk].name) >= MinNameLen

\* C7: when the async_task call made for a new Product fails (ImportError
\* or any other exception), save returns normally and the row is stored.
C7_EnqueueFailureKeepsRow ==
    (last.op = "save" /\ last.q \in {"ImportError", "Exception"}) =>
        /\ last.outcome = "ok"
        /\ last.created
        /\ last.pk \in DOMAIN products

C7_Witness ==
    /\ last.op = "save"
    /\ last.q = "Exception"
    /\ last.outcome = "ok"
    /\ last.pk \in DOMAIN products

\* C8: no hook lets an exception reach the write that triggered it: no
\* Product operation ends with a hook's exception, a save whose pre-save
\* lookup found no previous row or failed otherwise still writes, and an
\* account is stored whatever became of its profile.
C8_HooksNeverRaise ==
    /\ last.outcome # "raised"
    /\ (last.op = "save" /\ last.pre \in {"warning", "error"}) =>
          (last.outcome = "ok" /\ last.wrote /\ last.pk \in DOMAIN products)
    /\ ulast.outcome # "raised"
    /\ ulast.op = "create_user" => ulast.uid \in users

C8_Witness ==
    /\ last.op = "save"
    /\ last.pre = "warning"
    /\ last.outcome = "ok"
    /\ last.created

\* C9: notify_new_product returns status "error" / error
\* "product_not_found" without raising when no row has the id, returns
\* status "success" when one has, and re-raises any other exception.
C9_NotifyResult ==
    last.op = "notify" =>
        IF last.pre = "error"
        THEN last.result.raised
        ELSE IF last.pk \notin DOMAIN products
        THEN /\ ~last.result.raised
             /\ last.result.status = "error"
             /\ last.result.error = "product_not_found"
        ELSE /\ ~last.result.raised
             /\ last.result.status = "success"

C9_Witness ==
    /\ last.op = "notify"
    /\ n_inserts >= 1
    /\ last.pk \notin DOMAIN products
    /\ last.result.error = "product_not_found"

Age(pk) == clock - created_at[pk]

LetIn == last.status \notin {401, 403, 429}

C12_BadDaysIs400 ==
    ( /\ last.op = "api_recent" /\ LetIn
      /\ \/ last.param.kind = "str"
         \/ /\ last.param.kind = "int"
            /\ (last.param.n < 1 \/ last.param.n > 365) ) =>
        last.status = 400

Absent(p) == p.kind \in {"missing", "empty"}

C14_BadPriceParamIs400 ==
    ( /\ last.op = "api_price_range" /\ LetIn
      /\ ~Absent(last.param[1]) /\ ~Absent(last.param[2])
      /\ (last.param[1].kind = "str" \/ last.param[2].kind = "str") ) =>
        last.status = 400

NodeIds(nodes) == { n.id : n \in nodes }

LiveChildren(c) ==
    { k \in DOMAIN categories :
        categories[k].parent = c /\ ~categories[k].is_deleted }

RECURSIVE NodeOk(_)
NodeOk(node) ==
    /\ NodeIds(node.children) = LiveChildren(node.id)
    /\ Cardinality(node.children) = Cardinality(LiveChildren(node.id))
    /\ node.has_children <=> node.children # {}
    /\ \A n \in node.children : NodeOk(n)

C16_ProductPermissions ==
    /\ [] /\ last.op \in {"api_read", "api_recent"} =>
                last.status \notin {401, 403}
          /\ last.op \in {"api_create", "api_update"} =>
                (last.status \in {401, 403} <=> last.who = "anon")
          /\ last.op = "api_destroy" =>
                (last.status \in {401, 403} <=> ~last.req[1])
          /\ last.op = "api_set_active" =>
                (last.status \in {401, 403} <=> last.who # "staff")
    /\ [][ last'.status \in {401, 403} =>
             (products' = products /\ created_at' = created_at) ]_vars

C16_Witness ==
    /\ last.op = "api_set_active"
    /\ last.who = "user"
    /\ last.status = 403
    /\ last.pk \in DOMAIN products

\* C17: an update or partial update of a profile through
\* /api/v1/profiles/{pk}/ by a logged-in user without staff rights who is
\* not the profile's owner is refused.
C17_OnlyOwnerEdits ==
    ( /\ ulast.op = "api_update_profile"
      /\ ulast.who # None /\ ulast.who # ulast.uid
      /\ ulast.uid \in users /\ profiles[ulast.uid] > 0 ) =>
        ulast.status \in {401, 403, 429}

\* C18: a staff POST to deactivate that is let in is answered 200 and
\* leaves the product soft-deleted when it was not, and is answered 400
\* and changes nothing when it was; activate likewise with the two states
\* exchanged.
C18_SetActive ==
    [][ ( /\ last'.op = "api_set_active" /\ last'.who = "staff"
          /\ last'.status # 429
          /\ last'.pk \in DOMAIN products ) =>
          LET pk     == last'.pk
              wanted == last'.param = "deactivate"
          IN  IF products[pk].is_deleted = wanted
              THEN last'.status = 400 /\ products' = products
              ELSE /\ last'.status = 200
                   /\ products'[pk].is_deleted = wanted ]_vars

InWindow(times, t, period) ==
    Cardinality({ k \in 1..Len(times) : times[k] >= t /\ times[k] < t + period })

\* C19: a request is admitted (the view runs, 200) exactly when fewer than
\* max_requests of the same identifier's requests were admitted in the
\* period before it, and is otherwise answered 429 (the client accepts
\* JSON) or 403 without the view running; so in no window of `period`
\* seconds are more than max_requests of one identifier admitted, whatever
\* the other identifiers send.
C19_RateLimit ==
    /\ rlast.op = "request" =>
          /\ rlast.called <=> rlast.before < limit.max_requests
          /\ rlast.called => rlast.status = 200
          /\ ~rlast.called =>
                rlast.status = IF rlast.accepts_json THEN 429 ELSE 403
    /\ \A i \in Identifiers, t \in Seconds :
          InWindow(admitted[i], t, limit.period) <= limit.max_requests

C19_Witness ==
    /\ rlast.op = "request" /\ rlast.status = 403
    /\ \E i \in Identifiers :
          /\ i # rlast.identifier
          /\ Len(admitted[i]) > limit.max_requests
          /\ admitted[i][Len(admitted[i])] = now_s

\* C20: no two accounts share an email address, under every interleaving
\* of registration submissions.
C20_NoSharedEmail ==
    \A u \in users, v \in users :
        u # v => auth_user[u].email # auth_user[v].email

\* What Decimal arithmetic gives before rounding, in hundredths of a cent.
Discounted == last.before * (100 - last.percentage)

InRange == 0 < last.percentage /\ last.percentage < 100

\* C21 as stated: apply_discount(p) with 0 < p < 100 stores the price
\* reduced by p percent rounded to two decimal places; with p <= 0 or
\* p >= 100 it raises ValueError and neither the stored nor the in-memory
\* price changes.
C21_DiscountStored ==
    last.op = "apply_discount" =>
        IF InRange
        THEN /\ last.outcome = "ok"
             /\ products[last.pk].price = quantize(Discounted, 100)
        ELSE /\ last.outcome = "ValueError"
             /\ products[last.pk].price = last.before
             /\ last.memory = last.before

\* C21 as amended: with 0 < p < 100 the price reduced by p percent and
\* rounded half-even to two decimal places is stored when it is at least
\* 0.01, and otherwise the save raises a validation error and stores
\* nothing; with p <= 0 or p >= 100 the call raises ValueError and neither
\* the stored nor the in-memory price changes.
C21_DiscountStoredUnlessZero ==
    last.op = "apply_discount" =>
        IF InRange /\ quantize(Discounted, 100) >= 1
        THEN /\ last.outcome = "ok"
             /\ products[last.pk].price = quantize(Discounted, 100)
             /\ 2 * (100 * products[last.pk].price - Discounted) \in -100..100
             /\ last.memory = products[last.pk].price
        ELSE IF InRange
        THEN /\ last.outcome = "ValidationError"
             /\ products[last.pk].price = last.before
        ELSE /\ last.outcome = "ValueError"
             /\ products[last.pk].price = last.before
             /\ last.memory = last.before

C21_Witness ==
    /\ last.op = "apply_discount"
    /\ last.percentage = 10 /\ last.before = 10000
    /\ products[last.pk].price = 9000

\* C27: whenever apply_discount raises, the stored price and the
\* instance's in-memory price both equal their values before the call.
C27_RaiseLeavesPrice ==
    (last.op = "apply_discount" /\ last.outcome # "ok") =>
        /\ products[last.pk].price = last.before
        /\ last.memory = last.before

\* C23: after soft_delete, restore or the bulk_update_product_status task,
\* every product's is_deleted flag is true exactly when its deleted_at is
\* non-null.
C23_FlagIffTimestamp ==
    last.op \in {"soft_delete", "restore", "bulk_update"} =>
        \A pk \in DOMAIN products :
            products[pk].is_deleted <=> products[pk].deleted_at # None

\* C30: calculate_product_statistics reports total_products as the number
\* of product rows and active_products as the number of rows that are not
\* soft-deleted, so their difference is the number of soft-deleted rows.
C30_Statistics ==
    last.op = "statistics" =>
        /\ ~last.result.raised
        /\ last.param.total_products = Cardinality(DOMAIN products)
        /\ last.param.active_products =
             Cardinality({ i \in DOMAIN products : ~products[i].is_deleted })
        /\ last.param.total_products - last.param.active_products =
             Cardinality({ i \in DOMAIN products : products[i].is_deleted })

\* C25: when the pre-save hook sees the soft-delete flag of an existing
\* product change, it logs 'deactivated' for a change to deleted and
\* 'activated' for a change to not deleted; a price change is logged with
\* the old value before the new one.
C25_LogMatchesChange ==
    /\ []((last.wrote /\ last.log.status # "") =>
            last.log.status = IF products[last.pk].is_deleted
                              THEN "deactivated" ELSE "activated")
    /\ [][(last'.wrote /\ last'.log.price # <<>>) =>
            last'.log.price = <<products[last'.pk].price,
                                products'[last'.pk].price>>]_vars

\* The categories that appear anywhere in a set of nodes, and whether a
\* category is among its own ancestors.
RECURSIVE TreeIds(_)
TreeIds(nodes) ==
    UNION { {n.id} \cup TreeIds(n.children) : n \in nodes }

OnCycle(c) ==
    LET anc == get_ancestors(categories, c)
    IN  \E i \in 1..Len(anc) : anc[i] = c

Superusers == { u \in users : auth_user[u].is_superuser }

\* C22: the command creates a superuser only when none exists: run when
\* one exists it creates and changes nothing, a run creates one account at
\* most, and a second run with the same arguments changes nothing, so any
\* number of runs in sequence yields the accounts one run yields.
C22_SuperuserOnce ==
    /\ [](ulast.op = "create_superuser_if_none_exists" =>
            /\ Cardinality(Superusers) <= 1
            /\ \A db1 \in DbCases, db2 \in DbCases :
                  handle(Accounts(users, auth_user, profiles), ulast.who,
                         next_uid, db1, db2).acc
                    = Accounts(users, auth_user, profiles))
    /\ [][ ulast'.op = "create_superuser_if_none_exists" =>
             IF Superusers # {}
             THEN /\ ulast'.outcome = "skipped"
                  /\ <<users, auth_user, profiles, bio>>' =
                       <<users, auth_user, profiles, bio>>
             ELSE /\ users \subseteq users'
                  /\ Cardinality(users' \ users) <= 1
                  /\ \A u \in users : /\ auth_user'[u] = auth_user[u]
                                      /\ profiles'[u] = profiles[u]
                  /\ ulast'.outcome = "created" <=> Superusers' # {} ]_vars

C22_Witness ==
    /\ ulast.op = "create_superuser_if_none_exists"
    /\ ulast.outcome = "skipped"
    /\ Cardinality(users) >= 2
    /\ \E u \in Superusers : auth_user[u].username # ulast.who

\* The threads whose request was admitted, and the timestamps they
\* appended.
AdmittedThreads ==
    { t \in Threads : threads[t].pc = "returned" /\ ~threads[t].limited }

\* C24: when threads run is_rate_limited concurrently for one identifier,
\* no more than max_requests requests are admitted within one period, and
\* the timestamp of every admitted request is in the shared list while its
\* period lasts.
C24_ThreadsRespectLimit ==
    /\ Cardinality(AdmittedThreads) <= limit.max_requests
    /\ Len(requests[SharedIdentifier]) >= Cardinality(AdmittedThreads)

\* C28: while the entry cached for an argument tuple has not expired, a
\* call with that tuple returns the stored result without running the
\* function, whatever the result (None included).
C28_CachedNotRerun ==
    (klast.op = "call" /\ klast.fresh) =>
        /\ ~klast.ran
        /\ klast.result = klast.stored

====
